---- MODULE Spec2Model ----
(***************************************************************************)
(* A model of the AWS helper agent: the two toolkits of custom_tools       *)
(* (EC2Tool, S3Tool), whose methods wrap one boto3 call each and turn      *)
(* every outcome into a string, and the start-up and query loop of         *)
(* src/main.py.  Python strings are TLA+ strings; an optional value        *)
(* (None or a string) is the empty tuple or a one-element tuple.           *)
(***************************************************************************)
EXTENDS Integers, Sequences, FiniteSets, TLC

VARIABLES environ, dotenv, tool, call, pc, agents, inputs, user_query, forwarded, stdout

\* environ     os.environ (the two credential variables)
\* dotenv      the .env file load_dotenv reads (main.py:7)
\* tool        the toolkit objects s3_tool and ec2_tool (main.py:9-10)
\* call        the last method call on a toolkit: arguments, backend outcome, result
\* pc          the statement main.py is at
\* agents      the agents built so far, in order (main.py:12-99)
\* inputs      the lines read by input() so far (main.py:109)
\* user_query  the stripped line of the current turn (main.py:109)
\* forwarded   the queries handed to aws_agent.run so far (main.py:103)
\* stdout      what the loop has printed (main.py:111, 114)
vars == <<environ, dotenv, tool, call, pc, agents, inputs, user_query, forwarded, stdout>>

mainVars == <<pc, agents, inputs, user_query, forwarded, stdout>>

-----------------------------------------------------------------------------
(* Bounds of the model.                                                    *)

MaxReservations == 2
MaxInstances == 2
MaxListed == 2
MaxCreated == 2
MaxTurns == 2

-----------------------------------------------------------------------------
(* Python values.                                                          *)

None == <<>>
Some(s) == <<s>>

\* Python truthiness of an optional string: None and "" are falsy.
Truthy(o) == o # None /\ o[1] # ""

SeqsUpTo(S, n) == UNION {[1..k -> S] : k \in 0..n}

StartsWith(s, p) == Len(s) >= Len(p) /\ SubSeq(s, 1, Len(p)) = p

Contains(s, p) ==
    \E i \in 1..(Len(s) - Len(p) + 1) : SubSeq(s, i, i + Len(p) - 1) = p

\* sep.join(parts)
RECURSIVE Join(_, _)
Join(parts, sep) ==
    IF Len(parts) = 0 THEN ""
    ELSE IF Len(parts) = 1 THEN parts[1]
    ELSE parts[1] \o sep \o Join(Tail(parts), sep)

\* dict.get(key, default)
get(d, key, default) == IF key \in DOMAIN d THEN d[key] ELSE default

\* [x[field] for x in xs]
RECURSIVE Field(_, _)
Field(xs, field) ==
    IF Len(xs) = 0 THEN <<>> ELSE <<xs[1][field]>> \o Field(Tail(xs), field)

\* str.strip(): leading and trailing whitespace removed.
Whitespace == {" ", "\t"}

RECURSIVE lstrip(_)
lstrip(s) ==
    IF Len(s) > 0 /\ SubSeq(s, 1, 1) \in Whitespace THEN lstrip(Tail(s)) ELSE s

RECURSIVE rstrip(_)
rstrip(s) ==
    IF Len(s) > 0 /\ SubSeq(s, Len(s), Len(s)) \in Whitespace
    THEN rstrip(SubSeq(s, 1, Len(s) - 1))
    ELSE s

strip(s) == rstrip(lstrip(s))

\* str.lower(): each upper-case letter replaced by its lower-case letter.
UpperLetters == "ABCDEFGHIJKLMNOPQRSTUVWXYZ"
LowerLetters == "abcdefghijklmnopqrstuvwxyz"

LowerChar(c) ==
    IF \E i \in 1..Len(UpperLetters) : SubSeq(UpperLetters, i, i) = c
    THEN LET i == CHOOSE j \in 1..Len(UpperLetters) : SubSeq(UpperLetters, j, j) = c
         IN SubSeq(LowerLetters, i, i)
    ELSE c

RECURSIVE lower(_)
lower(s) ==
    IF Len(s) = 0 THEN "" ELSE LowerChar(SubSeq(s, 1, 1)) \o lower(Tail(s))

-----------------------------------------------------------------------------
(* The outcome of a method: the backend requests it issued, and either a   *)
(* returned string or an exception that leaves the method.                 *)

Returned(reqs, s) == [requests |-> reqs, raised |-> FALSE, value |-> s]
Propagated(reqs, cause) == [requests |-> reqs, raised |-> TRUE, value |-> cause]

Request(api, params) == [api |-> api, params |-> params]

\* What the backend does with a request: raise with a cause, or respond.
Raises(cause) == [raises |-> TRUE, cause |-> cause, response |-> None]
Responds(r) == [raises |-> FALSE, cause |-> "", response |-> r]

-----------------------------------------------------------------------------
(* What both toolkits share.                                               *)

ACCESS_KEY == "AWS_ACCESS_KEY_ID"
SECRET_KEY == "AWS_SECRET_ACCESS_KEY"
EnvNames == {ACCESS_KEY, SECRET_KEY}

\* os.getenv(name): None when the variable is not set.
getenv(env, name) == env[name]

MissingAWSCredentialsError ==
    "AWS_ACCESS_KEY_ID and AWS_SECRET_ACCESS_KEY must be set as environment variables. "
    \o "Please set these variables and try again."

\* Toolkit.register(function): the function is added under its name.
register(functions, name) ==
    IF \E i \in 1..Len(functions) : functions[i] = name
    THEN functions
    ELSE Append(functions, name)

\* boto3.client(service, region_name=region_name)
boto3_client(service, region_name) == [service |-> service, region |-> region_name]

\* A toolkit object: whether its constructor returned or raised, its client, its
\* registered functions in order, and the steps its constructor ran, in order.
\* name and description are the attributes the class declares.
NotConstructed ==
    [status |-> "none", error |-> "", client |-> None, functions |-> <<>>, init |-> <<>>,
     name |-> "", description |-> ""]
Failed(msg, steps) ==
    [status |-> "error", error |-> msg, client |-> None, functions |-> <<>>, init |-> steps,
     name |-> "", description |-> ""]
Constructed(name, description, client, functions, steps) ==
    [status |-> "ok", error |-> "", client |-> Some(client), functions |-> functions,
     init |-> steps, name |-> name, description |-> description]

EC2Tool_name == "EC2Tool"
EC2Tool_description == "A tool for managing AWS EC2 instances"
S3Tool_name == "S3Tool"
S3Tool_description == "A tool for interacting with AWS S3 buckets"

-----------------------------------------------------------------------------
(* EC2Tool                                                                 *)

\* EC2Tool.__init__ testing the variables for None only: "" passes.
EC2Tool__init__NoneOnly(env, region_name) ==
    LET aws_access_key == getenv(env, ACCESS_KEY)
        aws_secret_key == getenv(env, SECRET_KEY)
    IN IF aws_access_key = None \/ aws_secret_key = None
       THEN Failed(MissingAWSCredentialsError, <<"credentials">>)
       ELSE Constructed(
                EC2Tool_name, EC2Tool_description,
                boto3_client("ec2", region_name),
                <<"list_instances", "start_instance", "stop_instance",
                  "check_instance_status", "terminate_instance", "create_instance">>,
                <<"credentials", "client", "register">>)

EC2Tool__init__(env, region_name) ==
    LET aws_access_key == getenv(env, ACCESS_KEY)
        aws_secret_key == getenv(env, SECRET_KEY)
    IN IF ~Truthy(aws_access_key) \/ ~Truthy(aws_secret_key)
       THEN Failed(MissingAWSCredentialsError, <<"credentials">>)
       ELSE Constructed(
                EC2Tool_name, EC2Tool_description,
                boto3_client("ec2", region_name),
                register(register(register(register(register(register(<<>>,
                    "list_instances"), "start_instance"), "stop_instance"),
                    "check_instance_status"), "terminate_instance"), "create_instance"),
                <<"credentials", "client", "register">>)

\* The "Instance ID: ..., State: ..." lines of one reservation, in order.
RECURSIVE InstanceLines(_)
InstanceLines(insts) ==
    IF Len(insts) = 0 THEN <<>>
    ELSE <<"Instance ID: " \o insts[1].InstanceId \o ", State: " \o insts[1].State.Name>>
         \o InstanceLines(Tail(insts))

\* The lines of all reservations, in order.
RECURSIVE ReservationLines(_)
ReservationLines(reservations) ==
    IF Len(reservations) = 0 THEN <<>>
    ELSE InstanceLines(reservations[1].Instances) \o ReservationLines(Tail(reservations))

\* list_instances reading the first reservation only.
list_instances_first_reservation(b) ==
    LET reqs == <<Request("describe_instances", <<>>)>>
    IN IF b.raises
       THEN Returned(reqs, "Error listing instances: " \o b.cause)
       ELSE LET rs == b.response.Reservations
                instances == IF Len(rs) = 0 THEN <<>> ELSE InstanceLines(rs[1].Instances)
            IN Returned(reqs, IF Len(instances) > 0
                              THEN Join(instances, "\n")
                              ELSE "No EC2 instances found.")

list_instances(b) ==
    LET reqs == <<Request("describe_instances", <<>>)>>
    IN IF b.raises
       THEN Returned(reqs, "Error listing instances: " \o b.cause)
       ELSE LET instances == ReservationLines(b.response.Reservations)
            IN Returned(reqs, IF Len(instances) > 0
                              THEN Join(instances, "\n")
                              ELSE "No EC2 instances found.")

\* start_instance calling the backend a second time when the first call raises.
start_instance_retry(instance_id, b) ==
    LET req == Request("start_instances", [InstanceIds |-> <<instance_id>>])
    IN IF b.raises
       THEN Returned(<<req, req>>,
                     "Error starting instance " \o instance_id \o ": " \o b.cause)
       ELSE Returned(<<req>>, "Instance " \o instance_id \o " is starting.")

start_instance(instance_id, b) ==
    LET reqs == <<Request("start_instances", [InstanceIds |-> <<instance_id>>])>>
    IN IF b.raises
       THEN Returned(reqs, "Error starting instance " \o instance_id \o ": " \o b.cause)
       ELSE Returned(reqs, "Instance " \o instance_id \o " is starting.")

stop_instance(instance_id, b) ==
    LET reqs == <<Request("stop_instances", [InstanceIds |-> <<instance_id>>])>>
    IN IF b.raises
       THEN Returned(reqs, "Error stopping instance " \o instance_id \o ": " \o b.cause)
       ELSE Returned(reqs, "Instance " \o instance_id \o " is stopping.")

\* check_instance_status without the test for an empty list: the index raises
\* IndexError, which the handler turns into an error string.
check_instance_status_unguarded(instance_id, b) ==
    LET reqs == <<Request("describe_instance_status", [InstanceIds |-> <<instance_id>>])>>
    IN IF b.raises
       THEN Returned(reqs, "Error checking status of instance " \o instance_id
                           \o ": " \o b.cause)
       ELSE IF Len(b.response.InstanceStatuses) = 0
       THEN Returned(reqs, "Error checking status of instance " \o instance_id
                           \o ": list index out of range")
       ELSE LET state == b.response.InstanceStatuses[1].InstanceState.Name
            IN Returned(reqs, "Instance " \o instance_id \o " is " \o state \o ".")

check_instance_status(instance_id, b) ==
    LET reqs == <<Request("describe_instance_status", [InstanceIds |-> <<instance_id>>])>>
    IN IF b.raises
       THEN Returned(reqs, "Error checking status of instance " \o instance_id
                           \o ": " \o b.cause)
       ELSE IF Len(b.response.InstanceStatuses) = 0
       THEN Returned(reqs, "Instance " \o instance_id \o " is stopped or does not exist.")
       ELSE LET state == b.response.InstanceStatuses[1].InstanceState.Name
            IN Returned(reqs, "Instance " \o instance_id \o " is " \o state \o ".")

create_instance(image_id, instance_type, key_name, security_group, min_count, max_count, b) ==
    LET launch_params ==
            (IF Truthy(security_group)
             THEN [SecurityGroups |-> <<security_group[1]>>] ELSE <<>>)
            @@ (IF Truthy(key_name) THEN [KeyName |-> key_name[1]] ELSE <<>>)
            @@ [ImageId |-> image_id, InstanceType |-> instance_type,
                MinCount |-> min_count, MaxCount |-> max_count]
        reqs == <<Request("run_instances", launch_params)>>
    IN IF b.raises
       THEN Returned(reqs, "Error creating instance: " \o b.cause)
       ELSE LET instance_ids == Field(b.response.Instances, "InstanceId")
            IN Returned(reqs, "Instance(s) created successfully. Instance ID(s): "
                              \o Join(instance_ids, ", "))

\* terminate_instance without its exception handler.
terminate_instance_uncaught(instance_id, b) ==
    LET reqs == <<Request("terminate_instances", [InstanceIds |-> <<instance_id>>])>>
    IN IF b.raises
       THEN Propagated(reqs, b.cause)
       ELSE Returned(reqs, "Instance " \o instance_id \o " is terminating.")

terminate_instance(instance_id, b) ==
    LET reqs == <<Request("terminate_instances", [InstanceIds |-> <<instance_id>>])>>
    IN IF b.raises
       THEN Returned(reqs, "Error terminating instance " \o instance_id \o ": " \o b.cause)
       ELSE Returned(reqs, "Instance " \o instance_id \o " is terminating.")

-----------------------------------------------------------------------------
(* S3Tool                                                                  *)

\* S3Tool.__init__ without the credentials check.
S3Tool__init__Unchecked(env, region_name) ==
    Constructed(S3Tool_name, S3Tool_description, boto3_client("s3", region_name),
                <<"list_buckets", "list_objects", "upload_file", "delete_file">>,
                <<"client", "register">>)

S3Tool__init__(env, region_name) ==
    LET aws_access_key == getenv(env, ACCESS_KEY)
        aws_secret_key == getenv(env, SECRET_KEY)
    IN IF ~Truthy(aws_access_key) \/ ~Truthy(aws_secret_key)
       THEN Failed(MissingAWSCredentialsError, <<"credentials">>)
       ELSE Constructed(
                S3Tool_name, S3Tool_description,
                boto3_client("s3", region_name),
                register(register(register(register(<<>>,
                    "list_buckets"), "list_objects"), "upload_file"), "delete_file"),
                <<"credentials", "client", "register">>)

list_buckets(b) ==
    LET reqs == <<Request("list_buckets", <<>>)>>
    IN IF b.raises
       THEN Returned(reqs, "Error listing buckets: " \o b.cause)
       ELSE LET buckets == Field(get(b.response, "Buckets", <<>>), "Name")
            IN Returned(reqs, "Available S3 buckets: " \o Join(buckets, ", "))

list_objects(bucket_name, b) ==
    LET reqs == <<Request("list_objects_v2", [Bucket |-> bucket_name])>>
    IN IF b.raises
       THEN Returned(reqs, "Error listing objects in bucket '" \o bucket_name \o "': "
                           \o b.cause)
       ELSE LET objects == Field(get(b.response, "Contents", <<>>), "Key")
            IN Returned(reqs, "Objects in bucket '" \o bucket_name \o "': "
                              \o Join(objects, ", "))

upload_file(file_path, bucket_name, object_name, b) ==
    LET reqs == <<Request("upload_file",
                          [Filename |-> file_path, Bucket |-> bucket_name,
                           Key |-> object_name])>>
    IN IF b.raises
       THEN Returned(reqs, "Error uploading file: " \o b.cause)
       ELSE Returned(reqs, "File '" \o file_path \o "' successfully uploaded to bucket '"
                           \o bucket_name \o "' as '" \o object_name \o "'")

\* delete_file passing its two arguments to the backend in the wrong places.
delete_file_swapped(bucket_name, object_name, b) ==
    LET reqs == <<Request("delete_object", [Bucket |-> object_name, Key |-> bucket_name])>>
    IN IF b.raises
       THEN Returned(reqs, "Error deleting file: " \o b.cause)
       ELSE Returned(reqs, "File '" \o object_name \o "' successfully deleted from bucket '"
                           \o bucket_name \o "'")

delete_file(bucket_name, object_name, b) ==
    LET reqs == <<Request("delete_object", [Bucket |-> bucket_name, Key |-> object_name])>>
    IN IF b.raises
       THEN Returned(reqs, "Error deleting file: " \o b.cause)
       ELSE Returned(reqs, "File '" \o object_name \o "' successfully deleted from bucket '"
                           \o bucket_name \o "'")

\* region_name is None when the caller gives no region.
create_bucket(bucket_name, region_name, b) ==
    LET create_bucket_params ==
            (IF Truthy(region_name) /\ region_name[1] # "us-east-1"
             THEN [CreateBucketConfiguration |-> [LocationConstraint |-> region_name[1]]]
             ELSE <<>>)
            @@ [Bucket |-> bucket_name]
        reqs == <<Request("create_bucket", create_bucket_params)>>
    IN IF b.raises
       THEN Returned(reqs, "Error creating bucket '" \o bucket_name \o "': " \o b.cause)
       ELSE Returned(reqs, "Bucket '" \o bucket_name \o "' successfully created in region '"
                           \o (IF Truthy(region_name) THEN region_name[1] ELSE "us-east-1")
                           \o "'")

delete_bucket(bucket_name, b) ==
    LET reqs == <<Request("delete_bucket", [Bucket |-> bucket_name])>>
    IN IF b.raises
       THEN Returned(reqs, "Error deleting bucket '" \o bucket_name \o "': " \o b.cause)
       ELSE Returned(reqs, "Bucket '" \o bucket_name \o "' successfully deleted")

-----------------------------------------------------------------------------
(* The values the model draws its inputs from.                             *)

EnvValues == {None, Some(""), Some("secret")}
Environments == [EnvNames -> EnvValues]

DEFAULT_REGION == "us-east-1"
Regions == {DEFAULT_REGION, "eu-west-1"}
RegionArgs == {None, Some("")} \cup {Some(r) : r \in Regions \cup {"ap-south-1"}}

Causes == {"boom", "AccessDenied: not allowed"}
Failures == {Raises(c) : c \in Causes}
Plain == Failures \cup {Responds(<<>>)}

InstanceIds == {"i-1", "i-22"}
InstanceRecords ==
    {[InstanceId |-> "i-1", State |-> [Name |-> "running"]],
     [InstanceId |-> "i-22", State |-> [Name |-> "stopped"]]}
StatusRecords == {[InstanceState |-> [Name |-> n]] : n \in {"running", "pending"}}
ImageIds == {"ami-1"}
InstanceTypes == {"t2.micro"}
OptionalNames == {None, Some(""), Some("web")}
Counts == {1, 2}

BucketNames == {"b1", "logs"}
ObjectNames == {"k.txt", "b1"}
FilePaths == {"/tmp/f", "k.txt"}

\* Up to MaxReservations reservations holding up to MaxInstances instances in all.
RECURSIVE CountInstances(_)
CountInstances(rs) ==
    IF Len(rs) = 0 THEN 0 ELSE Len(rs[1].Instances) + CountInstances(Tail(rs))

DescribeInstances ==
    Failures \cup
    {Responds([Reservations |-> rs]) :
        rs \in {x \in SeqsUpTo({[Instances |-> is] :
                                   is \in SeqsUpTo(InstanceRecords, MaxInstances)},
                               MaxReservations) : CountInstances(x) <= MaxInstances}}

DescribeInstanceStatus ==
    Failures \cup
    {Responds([InstanceStatuses |-> ss]) : ss \in SeqsUpTo(StatusRecords, MaxListed)}

RunInstances ==
    Failures \cup
    {Responds([Instances |-> is]) :
        is \in SeqsUpTo({[InstanceId |-> i] : i \in InstanceIds}, MaxCreated)}

ListBuckets ==
    Failures \cup {Responds(<<>>)} \cup
    {Responds([Buckets |-> bs]) :
        bs \in SeqsUpTo({[Name |-> n] : n \in BucketNames}, MaxListed)}

ListObjects ==
    Failures \cup {Responds(<<>>)} \cup
    {Responds([Contents |-> os]) :
        os \in SeqsUpTo({[Key |-> k] : k \in ObjectNames}, MaxListed)}

-----------------------------------------------------------------------------
(* State.  tool: the two toolkit objects; call: the last method call made  *)
(* on a toolkit object, with what the backend did and what came back.      *)

NoCall == [tool |-> "", op |-> "", args |-> <<>>, backend |-> Responds(<<>>),
           requests |-> <<>>, raised |-> FALSE, value |-> ""]

Invocation(t, op, args, b, res) ==
    [tool |-> t, op |-> op, args |-> args, backend |-> b,
     requests |-> res.requests, raised |-> res.raised, value |-> res.value]

InitMain ==
    /\ pc = "load_dotenv"
    /\ agents = <<>>
    /\ inputs = <<>>
    /\ user_query = ""
    /\ forwarded = <<>>
    /\ stdout = <<>>

\* The toolkit classes used on their own: any environment, no .env file.
InitTools ==
    /\ environ \in Environments
    /\ dotenv = [n \in EnvNames |-> None]
    /\ tool = [t \in {"s3", "ec2"} |-> NotConstructed]
    /\ call = NoCall
    /\ InitMain

ConstructS3Tool ==
    /\ tool["s3"].status = "none"
    /\ \E region_name \in Regions :
         tool' = [tool EXCEPT !["s3"] = S3Tool__init__(environ, region_name)]
    /\ UNCHANGED <<environ, dotenv, call, mainVars>>

ConstructEC2Tool ==
    /\ tool["ec2"].status = "none"
    /\ \E region_name \in Regions :
         tool' = [tool EXCEPT !["ec2"] = EC2Tool__init__(environ, region_name)]
    /\ UNCHANGED <<environ, dotenv, call, mainVars>>

CallListInstances ==
    /\ tool["ec2"].status = "ok"
    /\ \E b \in DescribeInstances :
           call' = Invocation("ec2", "list_instances", <<>>, b, list_instances(b))
    /\ UNCHANGED <<environ, dotenv, tool, mainVars>>

CallStartInstance ==
    /\ tool["ec2"].status = "ok"
    /\ \E instance_id \in InstanceIds, b \in Plain :
           call' = Invocation("ec2", "start_instance", [instance_id |-> instance_id], b,
                 start_instance(instance_id, b))
    /\ UNCHANGED <<environ, dotenv, tool, mainVars>>

CallStopInstance ==
    /\ tool["ec2"].status = "ok"
    /\ \E instance_id \in InstanceIds, b \in Plain :
           call' = Invocation("ec2", "stop_instance", [instance_id |-> instance_id], b,
                 stop_instance(instance_id, b))
    /\ UNCHANGED <<environ, dotenv, tool, mainVars>>

CallCheckInstanceStatus ==
    /\ tool["ec2"].status = "ok"
    /\ \E instance_id \in InstanceIds, b \in DescribeInstanceStatus :
           call' = Invocation("ec2", "check_instance_status", [instance_id |-> instance_id], b,
                 check_instance_status(instance_id, b))
    /\ UNCHANGED <<environ, dotenv, tool, mainVars>>

CallCreateInstance ==
    /\ tool["ec2"].status = "ok"
    /\ \E image_id \in ImageIds, instance_type \in InstanceTypes,
          key_name \in OptionalNames, security_group \in OptionalNames,
          min_count \in Counts, max_count \in Counts, b \in RunInstances :
           call' = Invocation("ec2", "create_instance",
                 [image_id |-> image_id, instance_type |-> instance_type,
                  key_name |-> key_name, security_group |-> security_group,
                  min_count |-> min_count, max_count |-> max_count], b,
                 create_instance(image_id, instance_type, key_name, security_group,
                                 min_count, max_count, b))
    /\ UNCHANGED <<environ, dotenv, tool, mainVars>>

CallTerminateInstance ==
    /\ tool["ec2"].status = "ok"
    /\ \E instance_id \in InstanceIds, b \in Plain :
           call' = Invocation("ec2", "terminate_instance", [instance_id |-> instance_id], b,
                 terminate_instance(instance_id, b))
    /\ UNCHANGED <<environ, dotenv, tool, mainVars>>

CallListBuckets ==
    /\ tool["s3"].status = "ok"
    /\ \E b \in ListBuckets :
           call' = Invocation("s3", "list_buckets", <<>>, b, list_buckets(b))
    /\ UNCHANGED <<environ, dotenv, tool, mainVars>>

CallListObjects ==
    /\ tool["s3"].status = "ok"
    /\ \E bucket_name \in BucketNames, b \in ListObjects :
           call' = Invocation("s3", "list_objects", [bucket_name |-> bucket_name], b,
                 list_objects(bucket_name, b))
    /\ UNCHANGED <<environ, dotenv, tool, mainVars>>

CallUploadFile ==
    /\ tool["s3"].status = "ok"
    /\ \E file_path \in FilePaths, bucket_name \in BucketNames,
          object_name \in ObjectNames, b \in Plain :
           call' = Invocation("s3", "upload_file",
                 [file_path |-> file_path, bucket_name |-> bucket_name,
                  object_name |-> object_name], b,
                 upload_file(file_path, bucket_name, object_name, b))
    /\ UNCHANGED <<environ, dotenv, tool, mainVars>>

CallDeleteFile ==
    /\ tool["s3"].status = "ok"
    /\ \E bucket_name \in BucketNames, object_name \in ObjectNames, b \in Plain :
           call' = Invocation("s3", "delete_file",
                 [bucket_name |-> bucket_name, object_name |-> object_name], b,
                 delete_file(bucket_name, object_name, b))
    /\ UNCHANGED <<environ, dotenv, tool, mainVars>>

\* create_bucket replacing the toolkit's client by one for the region it is given.
CallCreateBucketRebindsClient ==
    /\ tool["s3"].status = "ok"
    /\ \E bucket_name \in BucketNames, region_name \in RegionArgs, b \in Plain :
           /\ call' = Invocation("s3", "create_bucket",
                    [bucket_name |-> bucket_name, region_name |-> region_name], b,
                    create_bucket(bucket_name, region_name, b))
           /\ tool' = IF Truthy(region_name)
                      THEN [tool EXCEPT !["s3"].client =
                                Some(boto3_client("s3", region_name[1]))]
                      ELSE tool
    /\ UNCHANGED <<environ, dotenv, mainVars>>

CallCreateBucket ==
    /\ tool["s3"].status = "ok"
    /\ \E bucket_name \in BucketNames, region_name \in RegionArgs, b \in Plain :
           call' = Invocation("s3", "create_bucket",
                 [bucket_name |-> bucket_name, region_name |-> region_name], b,
                 create_bucket(bucket_name, region_name, b))
    /\ UNCHANGED <<environ, dotenv, tool, mainVars>>

CallDeleteBucket ==
    /\ tool["s3"].status = "ok"
    /\ \E bucket_name \in BucketNames, b \in Plain :
           call' = Invocation("s3", "delete_bucket", [bucket_name |-> bucket_name], b,
                 delete_bucket(bucket_name, b))
    /\ UNCHANGED <<environ, dotenv, tool, mainVars>>

NextTools ==
    \/ ConstructS3Tool
    \/ ConstructEC2Tool
    \/ CallListInstances
    \/ CallStartInstance
    \/ CallStopInstance
    \/ CallCheckInstanceStatus
    \/ CallCreateInstance
    \/ CallTerminateInstance
    \/ CallListBuckets
    \/ CallListObjects
    \/ CallUploadFile
    \/ CallDeleteFile
    \/ CallCreateBucket
    \/ CallDeleteBucket

SpecTools == InitTools /\ [][NextTools]_vars

-----------------------------------------------------------------------------
(* src/main.py: start-up, then the query loop.                             *)

\* The lines the user may type.
Lines == {"quit", "QUIT", "Quit ", " quit", "\tqUiT ", "list buckets", " quitx", "q uit", ""}

\* What aws_agent.run(...).content may be.
Contents == {"Available S3 buckets: b1", "**Done**"}

FAREWELL == "Exiting the aws helper agenet. Goodbye!"

S3QueryAgent == [name |-> "S3QueryAgent", tools |-> <<"s3">>, team |-> <<>>]
EC2QueryAgent == [name |-> "EC2QueryAgent", tools |-> <<"ec2">>, team |-> <<>>]
AWSManagementAgent ==
    [name |-> "AWSManagementAgent", tools |-> <<>>,
     team |-> <<"S3QueryAgent", "EC2QueryAgent">>]

\* The function names the instructions of each service agent tell it to use.
S3InstructionOps ==
    {"list_buckets", "list_objects", "upload_file", "delete_file", "create_bucket",
     "delete_bucket"}
EC2InstructionOps ==
    {"list_instances", "start_instance", "stop_instance", "check_instance_status",
     "terminate_instance", "create_instance"}

\* load_dotenv(): a variable of the .env file is set unless the environment has it.
load_dotenv(env, file) ==
    [n \in EnvNames |-> IF env[n] = None /\ file[n] # None THEN file[n] ELSE env[n]]

Init ==
    /\ environ \in Environments
    /\ dotenv \in Environments
    /\ tool = [t \in {"s3", "ec2"} |-> NotConstructed]
    /\ call = NoCall
    /\ InitMain

LoadDotenv ==
    /\ pc = "load_dotenv"
    /\ environ' = load_dotenv(environ, dotenv)
    /\ pc' = "s3_tool"
    /\ UNCHANGED <<dotenv, tool, call, agents, inputs, user_query, forwarded, stdout>>

\* s3_tool = S3Tool(region_name="us-east-1"): an exception ends the program.
BuildS3Tool ==
    /\ pc = "s3_tool"
    /\ LET t == S3Tool__init__(environ, "us-east-1")
       IN /\ tool' = [tool EXCEPT !["s3"] = t]
          /\ pc' = IF t.status = "ok" THEN "ec2_tool" ELSE "halted"
    /\ UNCHANGED <<environ, dotenv, call, agents, inputs, user_query, forwarded, stdout>>

BuildEC2Tool ==
    /\ pc = "ec2_tool"
    /\ LET t == EC2Tool__init__(environ, "us-east-1")
       IN /\ tool' = [tool EXCEPT !["ec2"] = t]
          /\ pc' = IF t.status = "ok" THEN "s3_agent" ELSE "halted"
    /\ UNCHANGED <<environ, dotenv, call, agents, inputs, user_query, forwarded, stdout>>

BuildS3Agent ==
    /\ pc = "s3_agent"
    /\ agents' = Append(agents, S3QueryAgent)
    /\ pc' = "ec2_agent"
    /\ UNCHANGED <<environ, dotenv, tool, call, inputs, user_query, forwarded, stdout>>

BuildEC2Agent ==
    /\ pc = "ec2_agent"
    /\ agents' = Append(agents, EC2QueryAgent)
    /\ pc' = "aws_agent"
    /\ UNCHANGED <<environ, dotenv, tool, call, inputs, user_query, forwarded, stdout>>

BuildAWSAgent ==
    /\ pc = "aws_agent"
    /\ agents' = Append(agents, AWSManagementAgent)
    /\ pc' = "input"
    /\ UNCHANGED <<environ, dotenv, tool, call, inputs, user_query, forwarded, stdout>>

\* The exit test without lower().
IsQuitExact(query) == query = "quit"

\* Whether the loop takes the stripped line for the exit command.
IsQuit(query) == lower(query) = "quit"

\* One line is read and stripped; "quit" ends the loop, anything else goes to
\* process_query, which hands it to aws_agent.run.
ReadQuery ==
    /\ pc = "input"
    /\ Len(inputs) < MaxTurns
    /\ \E raw \in Lines :
         LET query == strip(raw)
         IN /\ inputs' = Append(inputs, raw)
            /\ user_query' = query
            /\ IF IsQuit(query)
               THEN /\ stdout' = Append(stdout, FAREWELL)
                    /\ pc' = "exited"
                    /\ UNCHANGED forwarded
               ELSE /\ forwarded' = Append(forwarded, query)
                    /\ pc' = "run"
                    /\ UNCHANGED stdout
    /\ UNCHANGED <<environ, dotenv, tool, call, agents>>

\* aws_agent.run returns; its content is printed and the loop reads again.
PrintResult ==
    /\ pc = "run"
    /\ \E content \in Contents : stdout' = Append(stdout, content)
    /\ pc' = "input"
    /\ UNCHANGED <<environ, dotenv, tool, call, agents, inputs, user_query, forwarded>>

\* aws_agent.run raises; nothing in the loop catches it and the program ends.
RunRaises ==
    /\ pc = "run"
    /\ pc' = "crashed"
    /\ UNCHANGED <<environ, dotenv, tool, call, agents, inputs, user_query, forwarded,
                   stdout>>

Next ==
    \/ LoadDotenv
    \/ BuildS3Tool
    \/ BuildEC2Tool
    \/ BuildS3Agent
    \/ BuildEC2Agent
    \/ BuildAWSAgent
    \/ ReadQuery
    \/ PrintResult
    \/ RunRaises

Spec == Init /\ [][Next]_vars

-----------------------------------------------------------------------------
(* Properties of the toolkits, checked under SpecTools.                    *)

Succeeded(op) == call.op = op /\ ~call.backend.raises

CredentialsPresent == Truthy(environ[ACCESS_KEY]) /\ Truthy(environ[SECRET_KEY])

Names(functions) == {functions[i] : i \in 1..Len(functions)}

\* C1: whenever the backend call of any of the twelve methods raises, the method
\* does not raise: it returns a string that begins with "Error" and contains the
\* cause text of the exception.
ErrorsBecomeStrings ==
    (call.op # "" /\ call.backend.raises) =>
        /\ ~call.raised
        /\ StartsWith(call.value, "Error")
        /\ Contains(call.value, call.backend.cause)

ErrorsBecomeStringsWitness ==
    /\ call.op = "terminate_instance"
    /\ call.backend = Raises("boom")
    /\ call.value = "Error terminating instance i-22: boom"

\* C2: a toolkit whose constructor ran with the access key or the secret key unset
\* or empty failed with the missing-credentials error, has no client and no
\* registered function; with both set and non-empty it was constructed with a client.
CredentialsGuard ==
    \A t \in {"s3", "ec2"} :
        tool[t].status # "none" =>
            IF CredentialsPresent
            THEN /\ tool[t].status = "ok"
                 /\ tool[t].client # None
                 /\ tool[t].client[1].service = t
            ELSE /\ tool[t].status = "error"
                 /\ tool[t].error = MissingAWSCredentialsError
                 /\ tool[t].client = None
                 /\ tool[t].functions = <<>>

CredentialsGuardWitness ==
    /\ environ[ACCESS_KEY] = Some("")
    /\ environ[SECRET_KEY] = Some("secret")
    /\ tool["ec2"].status = "error"
    /\ tool["s3"].status = "error"

\* C3: a constructed S3Tool has exactly the six functions list_buckets,
\* list_objects, upload_file, delete_file, create_bucket and delete_bucket
\* registered, a constructed EC2Tool exactly its six, and every function the agent
\* instructions name is registered.
RegisteredOperations ==
    /\ tool["s3"].status = "ok" =>
           /\ Names(tool["s3"].functions) =
                  {"list_buckets", "list_objects", "upload_file", "delete_file",
                   "create_bucket", "delete_bucket"}
           /\ S3InstructionOps \subseteq Names(tool["s3"].functions)
    /\ tool["ec2"].status = "ok" =>
           /\ Names(tool["ec2"].functions) =
                  {"list_instances", "start_instance", "stop_instance",
                   "check_instance_status", "create_instance", "terminate_instance"}
           /\ EC2InstructionOps \subseteq Names(tool["ec2"].functions)

\* The region a create_bucket call is for: the one given, else the one the toolkit
\* was constructed with.
TargetRegion ==
    IF Truthy(call.args.region_name)
    THEN call.args.region_name[1]
    ELSE tool["s3"].client[1].region

HasConstraint == "CreateBucketConfiguration" \in DOMAIN call.requests[1].params

\* C4: the request of create_bucket carries the region constraint exactly when the
\* target region is not us-east-1, and then the constraint names the target region.
ConstraintIffNotDefaultRegion ==
    call.op = "create_bucket" =>
        /\ HasConstraint <=> TargetRegion # DEFAULT_REGION
        /\ HasConstraint =>
               call.requests[1].params.CreateBucketConfiguration.LocationConstraint
                   = TargetRegion

\* C5: create_bucket called without a region sends the request and returns the
\* confirmation of create_bucket called with the region the toolkit was
\* constructed with.
DefaultsToConfiguredRegion ==
    (Succeeded("create_bucket") /\ call.args.region_name = None) =>
        LET explicit == create_bucket(call.args.bucket_name,
                                      Some(tool["s3"].client[1].region), call.backend)
        IN /\ call.requests = explicit.requests
           /\ call.value = explicit.value

\* The instances of a describe_instances response, reservation after reservation.
RECURSIVE Flatten(_)
Flatten(reservations) ==
    IF Len(reservations) = 0 THEN <<>>
    ELSE reservations[1].Instances \o Flatten(Tail(reservations))

\* s.split(c) for a one-character separator c.
RECURSIVE Split(_, _)
Split(s, c) ==
    IF \E i \in 1..Len(s) : SubSeq(s, i, i) = c
    THEN LET i == CHOOSE j \in 1..Len(s) :
                      /\ SubSeq(s, j, j) = c
                      /\ \A k \in 1..(j - 1) : SubSeq(s, k, k) # c
         IN <<SubSeq(s, 1, i - 1)>> \o Split(SubSeq(s, i + 1, Len(s)), c)
    ELSE <<s>>

\* C6: list_instances returns "No EC2 instances found." when the backend reports
\* no instance; otherwise one line per instance of all reservations, in the
\* backend's order, each "Instance ID: <id>, State: <state>", joined by newlines.
ListInstancesLines ==
    Succeeded("list_instances") =>
        LET insts == Flatten(call.backend.response.Reservations)
            lines == Split(call.value, "\n")
        IN IF Len(insts) = 0
           THEN call.value = "No EC2 instances found."
           ELSE /\ Len(lines) = Len(insts)
                /\ \A i \in 1..Len(insts) :
                       lines[i] = "Instance ID: " \o insts[i].InstanceId
                                  \o ", State: " \o insts[i].State.Name

ListInstancesLinesWitness ==
    /\ Succeeded("list_instances")
    /\ Len(call.backend.response.Reservations) = 2
    /\ call.value = "Instance ID: i-22, State: stopped\nInstance ID: i-1, State: running"

\* C7: check_instance_status returns "Instance <id> is stopped or does not exist.",
\* which does not begin with "Error", when the backend returns no status record,
\* and otherwise names the state of the first record.
StatusOrSentinel ==
    Succeeded("check_instance_status") =>
        LET statuses == call.backend.response.InstanceStatuses
            id == call.args.instance_id
        IN IF Len(statuses) = 0
           THEN /\ call.value = "Instance " \o id \o " is stopped or does not exist."
                /\ ~StartsWith(call.value, "Error")
           ELSE call.value = "Instance " \o id \o " is "
                             \o statuses[1].InstanceState.Name \o "."

StatusOrSentinelWitness ==
    /\ Succeeded("check_instance_status")
    /\ call.backend.response.InstanceStatuses = <<>>
    /\ call.value = "Instance i-1 is stopped or does not exist."

\* C8: the confirmations of upload_file, delete_file and delete_bucket contain the
\* bucket name and the object key (upload_file also the file path) as passed in,
\* and the backend request carries the same values.
ConfirmationsVerbatim ==
    /\ Succeeded("upload_file") =>
           /\ Contains(call.value, "'" \o call.args.file_path \o "'")
           /\ Contains(call.value, "'" \o call.args.bucket_name \o "'")
           /\ Contains(call.value, "'" \o call.args.object_name \o "'")
           /\ call.requests[1].params =
                  [Filename |-> call.args.file_path, Bucket |-> call.args.bucket_name,
                   Key |-> call.args.object_name]
    /\ Succeeded("delete_file") =>
           /\ Contains(call.value, "'" \o call.args.bucket_name \o "'")
           /\ Contains(call.value, "'" \o call.args.object_name \o "'")
           /\ call.requests[1].params =
                  [Bucket |-> call.args.bucket_name, Key |-> call.args.object_name]
    /\ Succeeded("delete_bucket") =>
           /\ Contains(call.value, "'" \o call.args.bucket_name \o "'")
           /\ call.requests[1].params = [Bucket |-> call.args.bucket_name]

ConfirmationsVerbatimWitness ==
    /\ Succeeded("delete_file")
    /\ call.args = [bucket_name |-> "logs", object_name |-> "k.txt"]
    /\ call.value = "File 'k.txt' successfully deleted from bucket 'logs'"

-----------------------------------------------------------------------------
(* Properties of src/main.py, checked under Spec.                          *)

Index(steps, x) == CHOOSE i \in 1..Len(steps) : steps[i] = x
Has(steps, x) == \E i \in 1..Len(steps) : steps[i] = x

IsPrefix(p, q) == Len(p) <= Len(q) /\ SubSeq(q, 1, Len(p)) = p

\* C9: start-up runs credentials, client, toolkit, agent, coordinator in that
\* order.  With a credential missing the program halts with the credentials error
\* at a toolkit's construction, no agent is built and no query is read; each
\* toolkit's constructor checks the credentials itself, before it makes its client.
StartupOrder ==
    /\ \A t \in {"s3", "ec2"} :
           /\ tool[t].status # "none" => Has(tool[t].init, "credentials")
           /\ tool[t].client # None =>
                  /\ Index(tool[t].init, "credentials") < Index(tool[t].init, "client")
                  /\ Index(tool[t].init, "client") < Index(tool[t].init, "register")
           /\ tool[t].status = "error" =>
                  /\ pc = "halted"
                  /\ tool[t].error = MissingAWSCredentialsError
    /\ (pc \notin {"load_dotenv", "s3_tool"} /\ ~CredentialsPresent) => pc = "halted"
    /\ pc = "halted" =>
           /\ \E t \in {"s3", "ec2"} : tool[t].status = "error"
           /\ agents = <<>>
           /\ inputs = <<>> /\ forwarded = <<>> /\ stdout = <<>>
    /\ tool["ec2"].status # "none" => tool["s3"].status = "ok"
    /\ agents # <<>> => tool["s3"].status = "ok" /\ tool["ec2"].status = "ok"
    /\ IsPrefix(agents, <<S3QueryAgent, EC2QueryAgent, AWSManagementAgent>>)
    /\ inputs # <<>> => Len(agents) = 3

StartupOrderWitness ==
    /\ pc = "halted"
    /\ environ[ACCESS_KEY] = Some("secret")
    /\ environ[SECRET_KEY] = None
    /\ tool["s3"].status = "error"
    /\ tool["ec2"].status = "none"

\* The lines among ls that are not the exit command as typed, in any letter case.
RECURSIVE NotQuitAsTyped(_)
NotQuitAsTyped(ls) ==
    IF Len(ls) = 0 THEN <<>>
    ELSE (IF lower(ls[1]) = "quit" THEN <<>> ELSE <<ls[1]>>) \o NotQuitAsTyped(Tail(ls))

\* C10 as stated: a line equal to "quit" in any letter case ends the session with
\* the farewell and is not forwarded; every other line is forwarded exactly once;
\* the results of all forwarded queries are printed before the next line is read.
QuitAsTypedEndsSession ==
    /\ \A i \in 1..Len(inputs) :
           lower(inputs[i]) = "quit" =>
               /\ i = Len(inputs)
               /\ pc = "exited"
               /\ stdout[Len(stdout)] = FAREWELL
    /\ Len(forwarded) = Len(NotQuitAsTyped(inputs))
    /\ pc = "input" => Len(stdout) = Len(forwarded)

\* The stripped lines among ls that are not the exit command once stripped.
RECURSIVE Queries(_)
Queries(ls) ==
    IF Len(ls) = 0 THEN <<>>
    ELSE (IF lower(strip(ls[1])) = "quit" THEN <<>> ELSE <<strip(ls[1])>>)
         \o Queries(Tail(ls))

\* C10 amended: a line that, with its leading and trailing whitespace stripped,
\* equals "quit" in any letter case ends the session with the farewell and is not
\* forwarded; every other line is forwarded, stripped, exactly once and in order;
\* a forwarded query's result is printed before the next line is read, and no line
\* is read while a query is unresolved.
QuitStrippedEndsSession ==
    /\ \A i \in 1..Len(inputs) :
           lower(strip(inputs[i])) = "quit" =>
               /\ i = Len(inputs)
               /\ pc = "exited"
               /\ stdout[Len(stdout)] = FAREWELL
    /\ pc = "exited" => lower(strip(inputs[Len(inputs)])) = "quit"
    /\ forwarded = Queries(inputs)
    /\ pc = "input" => Len(stdout) = Len(forwarded)
    /\ pc \in {"run", "crashed"} =>
           /\ Len(stdout) = Len(forwarded) - 1
           /\ forwarded[Len(forwarded)] = strip(inputs[Len(inputs)])
    /\ pc = "exited" => Len(stdout) = Len(forwarded) + 1

QuitStrippedEndsSessionWitness ==
    /\ pc = "exited"
    /\ inputs = <<"list buckets", "\tqUiT ">>
    /\ forwarded = <<"list buckets">>
    /\ stdout = <<"**Done**", FAREWELL>>

-----------------------------------------------------------------------------
(* Properties of a sequence of method calls, checked under SpecTools.      *)

\* The client method each toolkit method is a wrapper of.
BackendApi ==
    [list_instances |-> "describe_instances", start_instance |-> "start_instances",
     stop_instance |-> "stop_instances",
     check_instance_status |-> "describe_instance_status",
     create_instance |-> "run_instances", terminate_instance |-> "terminate_instances",
     list_buckets |-> "list_buckets", list_objects |-> "list_objects_v2",
     upload_file |-> "upload_file", delete_file |-> "delete_object",
     create_bucket |-> "create_bucket", delete_bucket |-> "delete_bucket"]

\* C11: every method call issues exactly one backend call, that of its own client
\* method, whether the backend responds or raises; when it raises nothing is tried
\* again and the method returns its error string.
OneBackendCall ==
    call.op # "" =>
        /\ Len(call.requests) = 1
        /\ call.requests[1].api = BackendApi[call.op]
        /\ call.backend.raises =>
               /\ ~call.raised
               /\ StartsWith(call.value, "Error ")

OneBackendCallWitness ==
    /\ call.op = "start_instance"
    /\ call.backend = Raises("AccessDenied: not allowed")
    /\ call.requests = <<Request("start_instances", [InstanceIds |-> <<"i-1">>])>>
    /\ call.value = "Error starting instance i-1: AccessDenied: not allowed"

\* C12: a constructed toolkit does not change: whatever methods are called on it,
\* and whether they succeed or fail, its client, its name and description and its
\* registered functions stay what they were when its constructor returned.
ToolkitImmutable ==
    [][\A t \in {"s3", "ec2"} :
           tool[t].status = "ok" =>
               /\ tool'[t].status = "ok"
               /\ tool'[t].client = tool[t].client
               /\ tool'[t].name = tool[t].name
               /\ tool'[t].description = tool[t].description
               /\ tool'[t].functions = tool[t].functions]_vars

ToolkitImmutableWitness ==
    /\ tool["s3"].status = "ok"
    /\ tool["s3"].client = Some(boto3_client("s3", "eu-west-1"))
    /\ tool["s3"].name = "S3Tool"
    /\ call.op = "create_bucket"
    /\ call.args.region_name = Some("ap-south-1")
    /\ call.backend.raises

====
